---- MODULE Spec2Model ----
(***************************************************************************)
(* Provisioning and teardown of the STEDI data-lake resources: the         *)
(* flag-gated step sequences of app/iac/setup.py and app/iac/teardown.py,  *)
(* the resource clients they call (s3.py, iam.py, vpc.py, glue.py), the    *)
(* polling wait of common.py and the entry point of app/__main__.py,       *)
(* run against a provider that holds the bucket, the role, the endpoints   *)
(* and the catalog between process runs.                                   *)
(***************************************************************************)
EXTENDS Integers, Sequences, FiniteSets, TLC

VARIABLES
    mode,        \* which branch of main() the process run took
    flags,       \* keyword arguments main() passes to run_setup / run_teardown
    pc,          \* position of the process run
    result,      \* "running", "ok", "raised" (uncaught exception) or "usage" (sys.exit(1))
    error,       \* the exception that ended the run, "" when none
    ops,         \* calls made to the provider and to the handoff file in this run, in order
    failedAt,    \* Len(ops) when the exception was raised, 0 when none
    warnings,    \* LOGGER.warning records of this run
    buckets,     \* provider: names of the buckets that exist
    objects,     \* provider: keys held by the bucket S3_BUCKET_NAME
    role,        \* provider: TRUE when the role GLUE_ROLE_NAME exists
    policies,    \* provider: inline policies of the role
    endpoints,   \* provider: identifiers of the live VPC endpoints
    issued,      \* provider: number of endpoint identifiers handed out so far
    database,    \* provider: TRUE when the catalog database DB_NAME exists
    tables,      \* provider: names of the tables of the database
    handoff,     \* the file vpc_endpoint.pkl: [exists, bytes]
    todo,        \* loop state: items the running loop has not visited yet
    page,        \* loop state: items of the listing page being worked on
    wait,        \* locals of a running wait_for_glue_database call
    load,        \* locals of a running load_glue_table_configs call
    data         \* locals of a running load_data_to_bucket call

vars == <<mode, flags, pc, result, error, ops, failedAt, warnings, buckets, objects,
          role, policies, endpoints, issued, database, tables, handoff, todo, page, wait, load, data>>

provider == <<buckets, objects, role, policies, endpoints, issued, database, tables>>

-----------------------------------------------------------------------------
(* Bounds of the model *)

\* endpoint identifiers the provider hands out before it refuses further creations
MaxEndpoints == 2
\* keys per page of the bucket listing and per delete_objects batch
PageSize == 1
\* tables per page of the get_tables paginator
TablePageSize == 1
\* largest max_attempts the wait is called with in SpecWait
MaxAttemptsBound == 4
\* largest delay the wait is called with in SpecWait
MaxDelay == 2

-----------------------------------------------------------------------------
(* app/config.py: values read from dwh.cfg *)

S3_BUCKET_NAME == "stedi-bucket"
ROUTE_TABLE_ID == "rtb-1"
VPC_ID == "vpc-1"
REGION == "us-west-2"
GLUE_ROLE_NAME == "glue-role"
GLUE_ROLE_POLICY_NAME == "glue-general"
S3_ROLE_POLICY_NAME == "s3-inline"
DB_NAME == "stedi_db"

\* defaults of wait_for_glue_database
DEFAULT_DELAY == 5
DEFAULT_MAX_ATTEMPTS == 20

-----------------------------------------------------------------------------
(* Local directory trees read by setup *)

\* app/data: entity -> whether it has a landing/ directory, and the entries
\* of that directory (regular files and others)
DataDir ==
    [customer |-> [has_landing |-> TRUE,
                   entries |-> {[name |-> "c1.json", is_file |-> TRUE],
                                [name |-> "archive", is_file |-> FALSE]}],
     step     |-> [has_landing |-> TRUE,
                   entries |-> {[name |-> "s1.json", is_file |-> TRUE]}],
     scratch  |-> [has_landing |-> FALSE, entries |-> {}]]

\* app/schemas: entity -> subfolder -> whether it holds a schema.json, and the
\* column list of that file
SchemaDir ==
    [customer |-> [landing |-> [has_schema |-> TRUE,
                                columns |-> <<[Name |-> "id", Type |-> "string"],
                                              [Name |-> "email", Type |-> "string"]>>],
                   trusted |-> [has_schema |-> FALSE, columns |-> <<>>]],
     step     |-> [landing |-> [has_schema |-> TRUE,
                                columns |-> <<[Name |-> "ts", Type |-> "bigint"]>>]]]

-----------------------------------------------------------------------------
(* Pure helpers *)

Call(op, arg) == [op |-> op, arg |-> arg]

OpNames(log) == [i \in 1..Len(log) |-> log[i].op]

\* s3.py load_data_to_bucket: the keys it uploads, one per regular file of
\* the landing/ directory of each entity that has one
LandingKeys ==
    UNION {{e \o "/landing/" \o f.name : f \in {g \in DataDir[e].entries : g.is_file}} :
              e \in {d \in DOMAIN DataDir : DataDir[d].has_landing}}

\* setup.py load_glue_table_configs
load_glue_table_configs(database_name) ==
    UNION {{[database_name |-> database_name,
             table_name    |-> e \o "_" \o sub,
             bucket_name   |-> S3_BUCKET_NAME,
             folder_prefix |-> e \o "/" \o sub \o "/",
             columns       |-> SchemaDir[e][sub].columns] :
               sub \in {x \in DOMAIN SchemaDir[e] : SchemaDir[e][x].has_schema}} :
           e \in DOMAIN SchemaDir}

TableNames == {c.table_name : c \in load_glue_table_configs(DB_NAME)}

\* identifiers the provider assigns to endpoints, in the order it hands them out
EndpointIds == <<"vpce-1", "vpce-2", "vpce-3", "vpce-4">>

\* vpc.py create_vpc_endpoint: the response of a successful call
EndpointResponse(id, vpc_id, route_table_id, service_name) ==
    [VpcEndpoint |-> [VpcEndpointId   |-> id,
                      VpcEndpointType |-> "Gateway",
                      VpcId           |-> vpc_id,
                      ServiceName     |-> service_name,
                      RouteTableId    |-> route_table_id]]


\* the entries of a set, one after the other
RECURSIVE SetToSeq(_)
SetToSeq(S) ==
    IF S = {} THEN <<>>
    ELSE LET x == CHOOSE y \in S : TRUE IN <<x>> \o SetToSeq(S \ {x})

\* pickle.dump of a two-level dict of strings: one record per leaf, holding
\* the outer key, the inner key and the value
pickle_dump(obj) ==
    SetToSeq(UNION {{<<k, f, obj[k][f]>> : f \in DOMAIN obj[k]} : k \in DOMAIN obj})

\* a load that loses the inner keys: every field gets one value of its dict
pickle_load_AnyField(bytes) ==
    LET items == {bytes[i] : i \in 1..Len(bytes)}
        keys  == {t[1] : t \in items}
    IN  [k \in keys |->
            [f \in {t[2] : t \in {u \in items : u[1] = k}} |->
                (CHOOSE t \in items : t[1] = k)[3]]]

\* pickle.load: the dict rebuilt from the leaf records
pickle_load(bytes) ==
    LET items == {bytes[i] : i \in 1..Len(bytes)}
        keys  == {t[1] : t \in items}
    IN  [k \in keys |->
            [f \in {t[2] : t \in {u \in items : u[1] = k}} |->
                (CHOOSE t \in items : t[1] = k /\ t[2] = f)[3]]]

NoFile == [exists |-> FALSE, bytes |-> <<>>]

-----------------------------------------------------------------------------
(* common.py wait_for_glue_database *)

Responses == {"ok", "not_found", "error"}

WaitStart(database_name, delay, max_attempts) ==
    [database_name |-> database_name, delay |-> delay, max_attempts |-> max_attempts,
     attempt |-> 0, calls |-> 0, sleeps |-> 0, slept |-> 0,
     status |-> "polling", error |-> "", seen |-> <<>>]

WaitIdle == WaitStart("", 0, 0)

\* the loop without its return: a found database starts the next pass
WaitIter_NoReturn(w, resp) ==
    LET called == [w EXCEPT !.calls = @ + 1, !.seen = Append(@, resp)] IN
    IF resp = "ok" THEN [called EXCEPT !.attempt = @ + 1]
    ELSE IF resp = "not_found" THEN [called EXCEPT !.status = "sleeping"]
    ELSE [called EXCEPT !.status = "raised", !.error = "ClientError"]

\* the loop with a blanket except: any error is slept on and retried
WaitIter_RetriesAnyError(w, resp) ==
    LET called == [w EXCEPT !.calls = @ + 1, !.seen = Append(@, resp)] IN
    IF resp = "ok" THEN [called EXCEPT !.status = "returned"]
    ELSE [called EXCEPT !.status = "sleeping"]

\* the loop without the sleep after its last attempt: a not-found on the last
\* pass goes straight to the timeout
WaitIter_NoSleepAfterLast(w, resp) ==
    LET called == [w EXCEPT !.calls = @ + 1, !.seen = Append(@, resp)] IN
    IF resp = "ok" THEN [called EXCEPT !.status = "returned"]
    ELSE IF resp = "not_found"
    THEN IF w.attempt + 1 = w.max_attempts
         THEN [called EXCEPT !.attempt = @ + 1]
         ELSE [called EXCEPT !.status = "sleeping"]
    ELSE [called EXCEPT !.status = "raised", !.error = "ClientError"]

\* common.py:36-39: the get_database call of one pass of the for body and the
\* branch its response takes. `seen` keeps the responses the provider gave
WaitIter(w, resp) ==
    LET called == [w EXCEPT !.calls = @ + 1, !.seen = Append(@, resp)] IN
    IF resp = "ok" THEN [called EXCEPT !.status = "returned"]
    ELSE IF resp = "not_found" THEN [called EXCEPT !.status = "sleeping"]
    ELSE [called EXCEPT !.status = "raised", !.error = "ClientError"]

\* common.py:40-47: the except branch sleeps, then the loop goes on
WaitSlept(w) ==
    [w EXCEPT !.status = "polling", !.attempt = @ + 1, !.sleeps = @ + 1,
              !.slept = @ + w.delay]

\* the timeout message built from the configured name, not the argument
WaitExhausted_NamesConfig(w) ==
    [w EXCEPT !.status = "raised", !.error = "TimeoutError: " \o DB_NAME]

\* common.py:49: range(max_attempts) is exhausted
WaitExhausted(w) ==
    [w EXCEPT !.status = "raised", !.error = "TimeoutError: " \o w.database_name]

\* the whole call, given the response of the provider to each attempt
RECURSIVE WaitRun(_, _)
WaitRun(w, script) ==
    IF w.status = "sleeping" THEN WaitRun(WaitSlept(w), script)
    ELSE IF w.status # "polling" THEN w
    ELSE IF w.attempt >= w.max_attempts THEN WaitExhausted(w)
    ELSE WaitRun(WaitIter(w, script[w.attempt + 1]), script)

\* k not-found responses, then `final` on every later attempt
Script(k, final, n) == [i \in 1..n |-> IF i <= k THEN "not_found" ELSE final]


-----------------------------------------------------------------------------
(* setup.py load_glue_table_configs as a walk over any schemas directory *)

\* json.load of a schema.json whose text is the Name and Type values of its
\* array, in file order: one dict per pair
json_load(text) ==
    [k \in 1..(Len(text) \div 2) |-> [Name |-> text[2 * k - 1], Type |-> text[2 * k]]]

\* setup.py:54-55: the locals at the start of the call. `base` maps the names
\* in the schemas directory to [is_dir, subs], and subs maps the names in an
\* entity directory to [is_dir, has_schema, text]
LoadStart(base, database_name) ==
    [base |-> base, database_name |-> database_name,
     entities |-> DOMAIN base, entity_dir |-> "", subfolders |-> {},
     configs |-> <<>>, warnings |-> <<>>, status |-> "walking"]

LoadIdle == LoadStart(<<>>, "")

\* setup.py:57-59: the outer loop takes the entry e of the schemas directory
LoadEntity(l, e) ==
    IF ~l.base[e].is_dir
    THEN [l EXCEPT !.entities = @ \ {e}]
    ELSE [l EXCEPT !.entities = @ \ {e}, !.entity_dir = e,
                   !.subfolders = DOMAIN l.base[e].subs]

\* a missing schema.json stops the walk with an error
LoadSubfolder_MissingSchemaIsFatal(l, sub) ==
    LET subfolder == l.base[l.entity_dir].subs[sub]
        rest == [l EXCEPT !.subfolders = @ \ {sub}]
    IN  IF ~subfolder.is_dir THEN rest
        ELSE IF ~subfolder.has_schema
        THEN [rest EXCEPT !.status = "raised"]
        ELSE [rest EXCEPT !.configs = Append(@,
                 [database_name |-> l.database_name,
                  table_name    |-> l.entity_dir \o "_" \o sub,
                  bucket_name   |-> S3_BUCKET_NAME,
                  folder_prefix |-> l.entity_dir \o "/" \o sub \o "/",
                  columns       |-> json_load(subfolder.text)])]

\* setup.py:61-87: the inner loop takes the entry sub of the entity directory
LoadSubfolder(l, sub) ==
    LET subfolder == l.base[l.entity_dir].subs[sub]
        rest == [l EXCEPT !.subfolders = @ \ {sub}]
    IN  IF ~subfolder.is_dir THEN rest
        ELSE IF ~subfolder.has_schema
        THEN [rest EXCEPT !.warnings = Append(@,
                 "No schema.json found in " \o l.entity_dir \o "/" \o sub)]
        ELSE [rest EXCEPT !.configs = Append(@,
                 [database_name |-> l.database_name,
                  table_name    |-> l.entity_dir \o "_" \o sub,
                  bucket_name   |-> S3_BUCKET_NAME,
                  folder_prefix |-> l.entity_dir \o "/" \o sub \o "/",
                  columns       |-> json_load(subfolder.text)])]

-----------------------------------------------------------------------------
(* s3.py load_data_to_bucket as a walk over any data directory *)

\* s3.py:105-113: the locals at the start of the loop. `base` maps the names
\* in the data directory to [is_dir, has_landing, entries], and entries maps
\* the names in landing/ to [is_file]
DataStart(base, bucket_name) ==
    [base |-> base, bucket_name |-> bucket_name,
     folders |-> DOMAIN base, folder |-> "", files |-> {},
     uploaded |-> <<>>, skipped |-> <<>>, status |-> "walking", error |-> ""]

DataIdle == DataStart(<<>>, "")

\* a folder without landing/ stops the walk with an error
DataFolder_MissingLandingIsFatal(d, f) ==
    LET rest == [d EXCEPT !.folders = @ \ {f}] IN
    IF ~d.base[f].is_dir THEN rest
    ELSE IF ~d.base[f].has_landing
    THEN [rest EXCEPT !.status = "raised", !.error = "FileNotFoundError"]
    ELSE [rest EXCEPT !.folder = f, !.files = DOMAIN d.base[f].entries]

\* s3.py:113-119: the outer loop takes the entry f of the data directory
DataFolder(d, f) ==
    LET rest == [d EXCEPT !.folders = @ \ {f}] IN
    IF ~d.base[f].is_dir THEN rest
    ELSE IF ~d.base[f].has_landing
    THEN [rest EXCEPT !.skipped = Append(@, f)]
    ELSE [rest EXCEPT !.folder = f, !.files = DOMAIN d.base[f].entries]

\* s3.py:123: the key an entry of landing/ is uploaded to
s3_key(folder_name, file_name) == folder_name \o "/landing/" \o file_name

\* s3.py:121-131: the inner loop takes the entry n of landing/; `ok` is
\* whether upload_file returns
DataFile(d, n, ok) ==
    LET rest == [d EXCEPT !.files = @ \ {n}] IN
    IF ~d.base[d.folder].entries[n].is_file THEN rest
    ELSE IF ok THEN [rest EXCEPT !.uploaded = Append(@, s3_key(d.folder, n))]
    ELSE [d EXCEPT !.status = "raised", !.error = "ClientError"]

-----------------------------------------------------------------------------
(* Process start and end *)

Init ==
    /\ mode = "none" /\ flags = <<>> /\ pc = "start"
    /\ result = "running" /\ error = "" /\ ops = <<>> /\ failedAt = 0 /\ warnings = <<>>
    /\ buckets = {} /\ objects = {} /\ role = FALSE /\ policies = {}
    /\ endpoints = {} /\ issued = 0 /\ database = FALSE /\ tables = {}
    /\ handoff = NoFile /\ todo = {} /\ page = {} /\ wait = WaitIdle /\ load = LoadIdle
    /\ data = DataIdle

\* run() with the sample-data block written before the endpoint block
SetupProgram_DataBeforeEndpoint ==
    <<"s_bucket", "s_role", "s_data", "s_vpc", "s_db", "s_tables">>

\* setup.py:118-160: the if blocks of run(), by the label of their first position
SetupProgram == <<"s_bucket", "s_role", "s_vpc", "s_data", "s_db", "s_tables">>

\* run() with its blocks written in the reverse of the setup order
TeardownProgram_ReverseOfSetup == <<"t_tables", "t_db", "t_vpc", "t_policy_s3", "t_bucket">>

\* run() with the database block written before the tables block
TeardownProgram_DatabaseBeforeTables ==
    <<"t_vpc", "t_policy_s3", "t_db", "t_tables", "t_bucket">>

\* teardown.py:47-91: the if blocks of run(), by the label of their first position
TeardownProgram == <<"t_vpc", "t_policy_s3", "t_tables", "t_db", "t_bucket">>

ArgNames == {"setup", "teardown", "skip_bucket", "skip_iam", "init_vpc_endpoint",
             "skip_load_data", "skip_glue_database", "skip_glue_tables",
             "remove_vpc_endpoint"}

\* __main__.py: the keyword arguments of run_setup
SetupKwargs(args) ==
    [init_bucket        |-> ~args.skip_bucket,
     init_iam_roles     |-> ~args.skip_iam,
     init_vpc_endpoint  |-> args.init_vpc_endpoint,
     load_sample_data   |-> ~args.skip_load_data,
     init_glue_database |-> ~args.skip_glue_database,
     init_glue_tables   |-> ~args.skip_glue_tables]

\* __main__.py: the keyword arguments of run_teardown
TeardownKwargs(args) ==
    [remove_vpc_endpoint  |-> args.remove_vpc_endpoint,
     remove_iam_roles     |-> ~args.skip_iam,
     remove_glue_database |-> ~args.skip_glue_database,
     remove_glue_tables   |-> ~args.skip_glue_tables,
     remove_bucket        |-> ~args.skip_bucket]

\* main() without the test for both modes: setup runs, the usage error is lost
Main_SetupWinsOverBoth ==
    /\ pc = "start"
    /\ \E args \in [ArgNames -> BOOLEAN] :
        IF args.setup
        THEN /\ mode' = (IF args.teardown THEN "both" ELSE "setup")
             /\ flags' = SetupKwargs(args)
             /\ pc' = SetupProgram[1]
             /\ UNCHANGED <<result, error, warnings>>
        ELSE IF args.teardown
        THEN /\ mode' = "teardown" /\ flags' = TeardownKwargs(args)
             /\ pc' = TeardownProgram[1]
             /\ UNCHANGED <<result, error, warnings>>
        ELSE /\ mode' = "none" /\ flags' = <<>>
             /\ result' = "ok" /\ pc' = "exit"
             /\ warnings' = Append(warnings, "No action specified")
             /\ UNCHANGED error
    /\ UNCHANGED <<ops, failedAt, provider, handoff, todo, page, wait, load, data>>

\* main() falling through to setup when neither mode is asked for
Main_DefaultsToSetup ==
    /\ pc = "start"
    /\ \E args \in [ArgNames -> BOOLEAN] :
        IF args.setup /\ args.teardown
        THEN /\ mode' = "both" /\ flags' = <<>>
             /\ result' = "usage" /\ error' = "SystemExit(1)" /\ pc' = "exit"
             /\ UNCHANGED warnings
        ELSE IF args.teardown
        THEN /\ mode' = "teardown" /\ flags' = TeardownKwargs(args)
             /\ pc' = TeardownProgram[1]
             /\ UNCHANGED <<result, error, warnings>>
        ELSE /\ mode' = (IF args.setup THEN "setup" ELSE "none")
             /\ flags' = SetupKwargs(args)
             /\ pc' = SetupProgram[1]
             /\ UNCHANGED <<result, error, warnings>>
    /\ UNCHANGED <<ops, failedAt, provider, handoff, todo, page, wait, load, data>>

\* __main__.py main(): the mode is chosen from the parsed arguments
Main ==
    /\ pc = "start"
    /\ \E args \in [ArgNames -> BOOLEAN] :
        IF args.setup /\ args.teardown
        THEN /\ mode' = "both" /\ flags' = <<>>
             /\ result' = "usage" /\ error' = "SystemExit(1)" /\ pc' = "exit"
             /\ UNCHANGED warnings
        ELSE IF args.setup
        THEN /\ mode' = "setup" /\ flags' = SetupKwargs(args)
             /\ pc' = SetupProgram[1]
             /\ UNCHANGED <<result, error, warnings>>
        ELSE IF args.teardown
        THEN /\ mode' = "teardown" /\ flags' = TeardownKwargs(args)
             /\ pc' = TeardownProgram[1]
             /\ UNCHANGED <<result, error, warnings>>
        ELSE /\ mode' = "none" /\ flags' = <<>>
             /\ result' = "ok" /\ pc' = "exit"
             /\ warnings' = Append(warnings, "No action specified")
             /\ UNCHANGED error
    /\ UNCHANGED <<ops, failedAt, provider, handoff, todo, page, wait, load, data>>

\* the process ends; the provider and the handoff file outlive it
Exit ==
    /\ pc = "exit"
    /\ mode' = "none" /\ flags' = <<>> /\ pc' = "start"
    /\ result' = "running" /\ error' = "" /\ ops' = <<>> /\ failedAt' = 0
    /\ warnings' = <<>> /\ todo' = {} /\ page' = {} /\ wait' = WaitIdle
    /\ UNCHANGED <<provider, handoff, load, data>>

\* where run() goes on after the if block that starts at `label`: at the next
\* block, or at its return to main()
After(label) ==
    LET program == IF mode = "setup" THEN SetupProgram ELSE TeardownProgram
        i == CHOOSE n \in 1..Len(program) : program[n] = label
    IN  IF i = Len(program) THEN "return" ELSE program[i + 1]

\* the calls returned: the run goes on at `next`, or ends if run() returns there
Proceed(calls, next) ==
    /\ ops' = ops \o calls
    /\ IF next = "return"
       THEN result' = "ok" /\ pc' = "exit"
       ELSE pc' = next /\ UNCHANGED result
    /\ UNCHANGED <<error, failedAt>>

\* a block is disabled or finished without a call
Goto(next) == Proceed(<<>>, next)

\* the exception is caught and logged, and run() goes on at its last block
Raise_Continues(calls, e) ==
    /\ ops' = ops \o calls
    /\ failedAt' = Len(ops) + Len(calls)
    /\ error' = e
    /\ pc' = IF mode = "setup" THEN "s_tables" ELSE "t_bucket"
    /\ UNCHANGED result

\* the exception is caught and logged at the end of run(), which returns
Raise_Swallowed(calls, e) ==
    /\ ops' = ops \o calls
    /\ failedAt' = Len(ops) + Len(calls)
    /\ result' = "ok" /\ error' = e
    /\ pc' = "exit"

\* the last of `calls` raised `e`, which nothing in run() or main() catches
Raise(calls, e) ==
    /\ ops' = ops \o calls
    /\ failedAt' = Len(ops) + Len(calls)
    /\ result' = "raised" /\ error' = e
    /\ pc' = "exit"

-----------------------------------------------------------------------------
(* setup.py run() *)

\* s3.py create_bucket, the call made by create_and_wait_for_bucket
create_bucket(bucket_name, next) ==
    /\ \E ok \in BOOLEAN :
        /\ ok => bucket_name \notin buckets
        /\ IF ok
           THEN /\ buckets' = buckets \cup {bucket_name}
                /\ Proceed(<<Call("create_bucket", bucket_name)>>, next)
           ELSE /\ Raise(<<Call("create_bucket", bucket_name)>>, "ClientError")
                /\ UNCHANGED buckets
    /\ UNCHANGED <<mode, flags, warnings, objects, role, policies, endpoints, issued,
                   database, tables, handoff, todo, page, wait, load, data>>

\* common.py wait_for_resource wrapper around create_and_wait_for_bucket: the
\* bucket_exists waiter, whose Bucket argument is fixed at decoration time
wait_for_bucket(next) ==
    /\ \E ok \in BOOLEAN :
        /\ ok => S3_BUCKET_NAME \in buckets
        /\ IF ok
           THEN Proceed(<<Call("wait_bucket_exists", S3_BUCKET_NAME)>>, next)
           ELSE Raise(<<Call("wait_bucket_exists", S3_BUCKET_NAME)>>, "WaiterError")
    /\ UNCHANGED <<mode, flags, warnings, provider, handoff, todo, page, wait, load, data>>

\* setup.py:118-120
SetupBucket ==
    /\ pc = "s_bucket"
    /\ IF flags.init_bucket
       THEN create_bucket(S3_BUCKET_NAME, "s_bucket_wait")
       ELSE /\ Goto(After("s_bucket"))
            /\ UNCHANGED <<mode, flags, warnings, provider, handoff, todo, page, wait, load, data>>

SetupBucketWait ==
    /\ pc = "s_bucket_wait"
    /\ wait_for_bucket(After("s_bucket"))

\* iam.py create_glue_service_role, setup.py:122-126
SetupRole ==
    /\ pc = "s_role"
    /\ IF flags.init_iam_roles
       THEN \E ok \in BOOLEAN :
            /\ ok => ~role
            /\ IF ok
               THEN /\ role' = TRUE
                    /\ Proceed(<<Call("create_role", GLUE_ROLE_NAME)>>, "s_policy_s3")
               ELSE /\ Raise(<<Call("create_role", GLUE_ROLE_NAME)>>, "ClientError")
                    /\ UNCHANGED role
       ELSE /\ Goto(After("s_role"))
            /\ UNCHANGED role
    /\ UNCHANGED <<mode, flags, warnings, buckets, objects, policies, endpoints, issued,
                   database, tables, handoff, todo, page, wait, load, data>>

\* iam.py put_role_policy of either inline policy
put_role_policy(role_name, policy_name, next) ==
    /\ \E ok \in BOOLEAN :
        /\ ok => role
        /\ IF ok
           THEN /\ policies' = policies \cup {policy_name}
                /\ Proceed(<<Call("put_role_policy", policy_name)>>, next)
           ELSE /\ Raise(<<Call("put_role_policy", policy_name)>>, "ClientError")
                /\ UNCHANGED policies
    /\ UNCHANGED <<mode, flags, warnings, buckets, objects, role, endpoints, issued,
                   database, tables, handoff, todo, page, wait, load, data>>

\* iam.py attach_inline_s3_policy, setup.py:128-129
SetupPolicyS3 ==
    /\ pc = "s_policy_s3"
    /\ put_role_policy(GLUE_ROLE_NAME, S3_ROLE_POLICY_NAME, "s_policy_glue")

\* iam.py attach_glue_general_access_policy, setup.py:131-134
SetupPolicyGlue ==
    /\ pc = "s_policy_glue"
    /\ put_role_policy(GLUE_ROLE_NAME, GLUE_ROLE_POLICY_NAME, After("s_role"))

\* the endpoint block without its pickle.dump: the response is only logged
SetupVpcEndpoint_ResponseNotDumped ==
    /\ pc = "s_vpc"
    /\ IF flags.init_vpc_endpoint
       THEN LET service_name == "com.amazonaws." \o REGION \o ".s3" IN
            \E ok \in BOOLEAN :
            /\ ok => issued < MaxEndpoints
            /\ IF ok
               THEN /\ issued' = issued + 1
                    /\ endpoints' = endpoints \cup {EndpointIds[issued + 1]}
                    /\ Proceed(<<Call("create_vpc_endpoint", service_name)>>,
                               After("s_vpc"))
               ELSE /\ Raise(<<Call("create_vpc_endpoint", service_name)>>, "ClientError")
                    /\ UNCHANGED <<issued, endpoints>>
       ELSE /\ Goto(After("s_vpc"))
            /\ UNCHANGED <<issued, endpoints>>
    /\ UNCHANGED <<mode, flags, warnings, buckets, objects, role, policies,
                   database, tables, handoff, todo, page, wait, load, data>>

\* the endpoint block removing the old record when create_vpc_endpoint fails
SetupVpcEndpoint_ClearsHandoffOnFailure ==
    /\ pc = "s_vpc"
    /\ IF flags.init_vpc_endpoint
       THEN LET service_name == "com.amazonaws." \o REGION \o ".s3" IN
            \E ok \in BOOLEAN :
            /\ ok => issued < MaxEndpoints
            /\ IF ok
               THEN LET id   == EndpointIds[issued + 1]
                        resp == EndpointResponse(id, VPC_ID, ROUTE_TABLE_ID, service_name)
                    IN  /\ issued' = issued + 1
                        /\ endpoints' = endpoints \cup {id}
                        /\ handoff' = [exists |-> TRUE, bytes |-> pickle_dump(resp)]
                        /\ Proceed(<<Call("create_vpc_endpoint", service_name),
                                     Call("pickle_dump", id)>>, After("s_vpc"))
               ELSE /\ Raise(<<Call("create_vpc_endpoint", service_name)>>, "ClientError")
                    /\ handoff' = NoFile
                    /\ UNCHANGED <<issued, endpoints>>
       ELSE /\ Goto(After("s_vpc"))
            /\ UNCHANGED <<issued, endpoints, handoff>>
    /\ UNCHANGED <<mode, flags, warnings, buckets, objects, role, policies,
                   database, tables, todo, page, wait, load, data>>

\* setup.py:136-146: create_vpc_endpoint, then the response pickled to the
\* handoff file
SetupVpcEndpoint ==
    /\ pc = "s_vpc"
    /\ IF flags.init_vpc_endpoint
       THEN LET service_name == "com.amazonaws." \o REGION \o ".s3" IN
            \E ok \in BOOLEAN :
            /\ ok => issued < MaxEndpoints
            /\ IF ok
               THEN LET id   == EndpointIds[issued + 1]
                        resp == EndpointResponse(id, VPC_ID, ROUTE_TABLE_ID, service_name)
                    IN  /\ issued' = issued + 1
                        /\ endpoints' = endpoints \cup {id}
                        /\ handoff' = [exists |-> TRUE, bytes |-> pickle_dump(resp)]
                        /\ Proceed(<<Call("create_vpc_endpoint", service_name),
                                     Call("pickle_dump", id)>>, After("s_vpc"))
               ELSE /\ Raise(<<Call("create_vpc_endpoint", service_name)>>, "ClientError")
                    /\ UNCHANGED <<issued, endpoints, handoff>>
       ELSE /\ Goto(After("s_vpc"))
            /\ UNCHANGED <<issued, endpoints, handoff>>
    /\ UNCHANGED <<mode, flags, warnings, buckets, objects, role, policies,
                   database, tables, todo, page, wait, load, data>>

\* setup.py:148-149 and s3.py load_data_to_bucket up to its loop
SetupData ==
    /\ pc = "s_data"
    /\ IF flags.load_sample_data
       THEN todo' = LandingKeys /\ Goto("s_upload")
       ELSE todo' = {} /\ Goto(After("s_data"))
    /\ UNCHANGED <<mode, flags, warnings, provider, handoff, page, wait, load, data>>

\* s3.py:121-131: one upload_file call; the directory order is the platform's
SetupUpload ==
    /\ pc = "s_upload"
    /\ IF todo = {}
       THEN /\ Goto(After("s_data"))
            /\ UNCHANGED <<todo, objects>>
       ELSE \E key \in todo, ok \in BOOLEAN :
            /\ ok => S3_BUCKET_NAME \in buckets
            /\ IF ok
               THEN /\ objects' = objects \cup {key}
                    /\ todo' = todo \ {key}
                    /\ Proceed(<<Call("upload_file", key)>>, "s_upload")
               ELSE /\ Raise(<<Call("upload_file", key)>>, "ClientError")
                    /\ UNCHANGED <<todo, objects>>
    /\ UNCHANGED <<mode, flags, warnings, buckets, role, policies, endpoints, issued,
                   database, tables, handoff, page, wait, load, data>>

\* the database block calling create_glue_database alone, without the wait
SetupGlueDatabase_NoWait ==
    /\ pc = "s_db"
    /\ IF flags.init_glue_database
       THEN \E ok \in BOOLEAN :
            /\ ok => ~database
            /\ IF ok
               THEN /\ database' = TRUE
                    /\ Proceed(<<Call("create_database", DB_NAME)>>, After("s_db"))
               ELSE /\ Raise(<<Call("create_database", DB_NAME)>>, "ClientError")
                    /\ UNCHANGED database
       ELSE /\ Goto(After("s_db"))
            /\ UNCHANGED database
    /\ UNCHANGED <<mode, flags, warnings, buckets, objects, role, policies, endpoints,
                   issued, tables, handoff, todo, page, wait, load, data>>

\* setup.py:151-153 and glue.py create_glue_database
SetupGlueDatabase ==
    /\ pc = "s_db"
    /\ IF flags.init_glue_database
       THEN \E ok \in BOOLEAN :
            /\ ok => ~database
            /\ IF ok
               THEN /\ database' = TRUE
                    /\ Proceed(<<Call("create_database", DB_NAME)>>, "s_db_wait")
               ELSE /\ Raise(<<Call("create_database", DB_NAME)>>, "ClientError")
                    /\ UNCHANGED database
       ELSE /\ Goto(After("s_db"))
            /\ UNCHANGED database
    /\ UNCHANGED <<mode, flags, warnings, buckets, objects, role, policies, endpoints,
                   issued, tables, handoff, todo, page, wait, load, data>>

\* glue.py:66: wait_for_glue_database(client, database_name) with its defaults;
\* the polls of one wait are recorded as one get_database entry of ops
SetupGlueDatabaseWait ==
    /\ pc = "s_db_wait"
    /\ \E k \in 0..DEFAULT_MAX_ATTEMPTS, final \in {"ok", "error"} :
        LET w == WaitRun(WaitStart(DB_NAME, DEFAULT_DELAY, DEFAULT_MAX_ATTEMPTS),
                         Script(k, final, DEFAULT_MAX_ATTEMPTS))
        IN  /\ (w.status = "returned") => database
            /\ IF w.status = "returned"
               THEN Proceed(<<Call("get_database", DB_NAME)>>, After("s_db"))
               ELSE Raise(<<Call("get_database", DB_NAME)>>, w.error)
    /\ UNCHANGED <<mode, flags, warnings, provider, handoff, todo, page, wait, load, data>>

\* the tables block nested under the database flag
SetupTables_NeedsDatabaseFlag ==
    /\ pc = "s_tables"
    /\ IF flags.init_glue_tables /\ flags.init_glue_database
       THEN todo' = load_glue_table_configs(DB_NAME) /\ Goto("s_create_table")
       ELSE todo' = {} /\ Goto(After("s_tables"))
    /\ UNCHANGED <<mode, flags, warnings, provider, handoff, page, wait, load, data>>

\* setup.py:155-156
SetupTables ==
    /\ pc = "s_tables"
    /\ IF flags.init_glue_tables
       THEN todo' = load_glue_table_configs(DB_NAME) /\ Goto("s_create_table")
       ELSE todo' = {} /\ Goto(After("s_tables"))
    /\ UNCHANGED <<mode, flags, warnings, provider, handoff, page, wait, load, data>>

\* the table loop with a compensating handler: a failed create_table drops
\* the tables made so far and the database before the error is raised
SetupCreateTable_RollsBack ==
    /\ pc = "s_create_table"
    /\ IF todo = {}
       THEN /\ Goto(After("s_tables"))
            /\ UNCHANGED <<todo, tables, database>>
       ELSE \E config \in todo, ok \in BOOLEAN :
            /\ ok => (database /\ config.table_name \notin tables)
            /\ IF ok
               THEN /\ tables' = tables \cup {config.table_name}
                    /\ todo' = todo \ {config}
                    /\ Proceed(<<Call("create_table", config.table_name)>>, "s_create_table")
                    /\ UNCHANGED database
               ELSE /\ Raise(<<Call("create_table", config.table_name)>>, "ClientError")
                    /\ tables' = {} /\ database' = FALSE
                    /\ UNCHANGED todo
    /\ UNCHANGED <<mode, flags, warnings, buckets, objects, role, policies, endpoints,
                   issued, handoff, page, wait, load, data>>

\* setup.py:158-160 and glue.py create_glue_table
SetupCreateTable ==
    /\ pc = "s_create_table"
    /\ IF todo = {}
       THEN /\ Goto(After("s_tables"))
            /\ UNCHANGED <<todo, tables>>
       ELSE \E config \in todo, ok \in BOOLEAN :
            /\ ok => (database /\ config.table_name \notin tables)
            /\ IF ok
               THEN /\ tables' = tables \cup {config.table_name}
                    /\ todo' = todo \ {config}
                    /\ Proceed(<<Call("create_table", config.table_name)>>, "s_create_table")
               ELSE /\ Raise(<<Call("create_table", config.table_name)>>, "ClientError")
                    /\ UNCHANGED <<todo, tables>>
    /\ UNCHANGED <<mode, flags, warnings, buckets, objects, role, policies, endpoints,
                   issued, database, handoff, page, wait, load, data>>

Setup ==
    \/ SetupBucket \/ SetupBucketWait
    \/ SetupRole \/ SetupPolicyS3 \/ SetupPolicyGlue
    \/ SetupVpcEndpoint
    \/ SetupData \/ SetupUpload
    \/ SetupGlueDatabase \/ SetupGlueDatabaseWait
    \/ SetupTables \/ SetupCreateTable

-----------------------------------------------------------------------------
(* teardown.py run() *)

\* the handoff file opened without the is_file test: open() raises
HandoffMissing_Raises ==
    /\ Raise(<<>>, "FileNotFoundError")
    /\ UNCHANGED <<warnings, endpoints>>

\* teardown.py:60-63: no handoff file, the endpoint block logs a warning and ends
HandoffMissing ==
    /\ warnings' = Append(warnings, "VPC endpoint pickle file not found")
    /\ Goto(After("t_vpc"))
    /\ UNCHANGED endpoints

\* the endpoint block with the handoff file unlinked once the endpoint is
\* deleted
TeardownVpcEndpoint_UnlinksHandoff ==
    /\ pc = "t_vpc"
    /\ IF flags.remove_vpc_endpoint
       THEN IF handoff.exists
            THEN LET vpc_endpoint_resp == pickle_load(handoff.bytes)
                     vpc_endpoint == vpc_endpoint_resp["VpcEndpoint"]["VpcEndpointId"]
                     calls == <<Call("pickle_load", vpc_endpoint),
                                Call("delete_vpc_endpoints", vpc_endpoint)>>
                 IN  \E outcome \in {"deleted", "unsuccessful", "raised"} :
                     /\ (outcome = "deleted") => vpc_endpoint \in endpoints
                     /\ IF outcome = "raised"
                        THEN Raise(calls, "ClientError") /\ UNCHANGED <<endpoints, handoff>>
                        ELSE /\ Proceed(calls, After("t_vpc"))
                             /\ endpoints' = IF outcome = "deleted"
                                             THEN endpoints \ {vpc_endpoint}
                                             ELSE endpoints
                             /\ handoff' = IF outcome = "deleted" THEN NoFile ELSE handoff
                     /\ UNCHANGED warnings
            ELSE HandoffMissing /\ UNCHANGED handoff
       ELSE /\ Goto(After("t_vpc"))
            /\ UNCHANGED <<warnings, endpoints, handoff>>
    /\ UNCHANGED <<mode, flags, buckets, objects, role, policies, issued, database,
                   tables, todo, page, wait, load, data>>

\* teardown.py:47-63 and vpc.py delete_vpc_endpoint. delete_vpc_endpoints
\* either raises or returns; a response that lists the identifier as
\* unsuccessful is a return, and run() does not read it
TeardownVpcEndpoint ==
    /\ pc = "t_vpc"
    /\ IF flags.remove_vpc_endpoint
       THEN IF handoff.exists
            THEN LET vpc_endpoint_resp == pickle_load(handoff.bytes)
                     vpc_endpoint == vpc_endpoint_resp["VpcEndpoint"]["VpcEndpointId"]
                     calls == <<Call("pickle_load", vpc_endpoint),
                                Call("delete_vpc_endpoints", vpc_endpoint)>>
                 IN  \E outcome \in {"deleted", "unsuccessful", "raised"} :
                     /\ (outcome = "deleted") => vpc_endpoint \in endpoints
                     /\ IF outcome = "raised"
                        THEN Raise(calls, "ClientError") /\ UNCHANGED endpoints
                        ELSE /\ Proceed(calls, After("t_vpc"))
                             /\ endpoints' = IF outcome = "deleted"
                                             THEN endpoints \ {vpc_endpoint}
                                             ELSE endpoints
                     /\ UNCHANGED warnings
            ELSE HandoffMissing
       ELSE /\ Goto(After("t_vpc"))
            /\ UNCHANGED <<warnings, endpoints>>
    /\ UNCHANGED <<mode, flags, buckets, objects, role, policies, issued, database,
                   tables, handoff, todo, page, wait, load, data>>

\* iam.py delete_role_policy of either inline policy
delete_role_policy(role_name, policy_name, next) ==
    /\ \E ok \in BOOLEAN :
        /\ ok => (role /\ policy_name \in policies)
        /\ IF ok
           THEN /\ policies' = policies \ {policy_name}
                /\ Proceed(<<Call("delete_role_policy", policy_name)>>, next)
           ELSE /\ Raise(<<Call("delete_role_policy", policy_name)>>, "ClientError")
                /\ UNCHANGED policies
    /\ UNCHANGED <<mode, flags, warnings, buckets, objects, role, endpoints, issued,
                   database, tables, handoff, todo, page, wait, load, data>>

\* the identity block without the call that deletes the general policy
TeardownPolicyS3_ThenRole ==
    /\ pc = "t_policy_s3"
    /\ IF flags.remove_iam_roles
       THEN delete_role_policy(GLUE_ROLE_NAME, S3_ROLE_POLICY_NAME, "t_role")
       ELSE /\ Goto(After("t_policy_s3"))
            /\ UNCHANGED <<mode, flags, warnings, provider, handoff, todo, page, wait, load, data>>

\* iam.py delete_inline_s3_policy, teardown.py:65-69
TeardownPolicyS3 ==
    /\ pc = "t_policy_s3"
    /\ IF flags.remove_iam_roles
       THEN delete_role_policy(GLUE_ROLE_NAME, S3_ROLE_POLICY_NAME, "t_policy_glue")
       ELSE /\ Goto(After("t_policy_s3"))
            /\ UNCHANGED <<mode, flags, warnings, provider, handoff, todo, page, wait, load, data>>

\* iam.py delete_glue_general_access_policy, teardown.py:71-74
TeardownPolicyGlue ==
    /\ pc = "t_policy_glue"
    /\ delete_role_policy(GLUE_ROLE_NAME, GLUE_ROLE_POLICY_NAME, "t_role")

\* iam.py delete_glue_service_role, teardown.py:76-79; the provider refuses to
\* delete a role that still has inline policies
TeardownRole ==
    /\ pc = "t_role"
    /\ \E ok \in BOOLEAN :
        /\ ok => (role /\ policies = {})
        /\ IF ok
           THEN /\ role' = FALSE
                /\ Proceed(<<Call("delete_role", GLUE_ROLE_NAME)>>, After("t_policy_s3"))
           ELSE /\ Raise(<<Call("delete_role", GLUE_ROLE_NAME)>>, "ClientError")
                /\ UNCHANGED role
    /\ UNCHANGED <<mode, flags, warnings, buckets, objects, policies, endpoints, issued,
                   database, tables, handoff, todo, page, wait, load, data>>

\* the tables block without its flag test
TeardownTables_IgnoresFlag ==
    /\ pc = "t_tables"
    /\ todo' = tables /\ Goto("t_get_tables")
    /\ UNCHANGED <<mode, flags, warnings, provider, handoff, page, wait, load, data>>

\* teardown.py:81-83 and glue.py:170-173: the get_tables paginator is made
TeardownTables ==
    /\ pc = "t_tables"
    /\ IF flags.remove_glue_tables
       THEN todo' = tables /\ Goto("t_get_tables")
       ELSE todo' = {} /\ Goto(After("t_tables"))
    /\ UNCHANGED <<mode, flags, warnings, provider, handoff, page, wait, load, data>>

\* glue.py:175: the paginator fetches the next page of the table listing
TeardownGetTables ==
    /\ pc = "t_get_tables"
    /\ \E ok \in BOOLEAN :
        /\ ok => database
        /\ IF ok
           THEN \E listed \in SUBSET todo :
                /\ Cardinality(listed) =
                      (IF Cardinality(todo) < TablePageSize
                       THEN Cardinality(todo) ELSE TablePageSize)
                /\ page' = listed
                /\ todo' = todo \ listed
                /\ Proceed(<<Call("get_tables", DB_NAME)>>, "t_delete_table")
           ELSE /\ Raise(<<Call("get_tables", DB_NAME)>>, "ClientError")
                /\ UNCHANGED <<todo, page>>
    /\ UNCHANGED <<mode, flags, warnings, provider, handoff, wait, load, data>>

\* the loop over one get_tables response instead of the paginator: the tables
\* block ends with the first page
TeardownDeleteTable_FirstPageOnly ==
    /\ pc = "t_delete_table"
    /\ IF page = {}
       THEN /\ Goto(After("t_tables"))
            /\ UNCHANGED <<page, tables>>
       ELSE \E table_name \in page, ok \in BOOLEAN :
            /\ ok => (database /\ table_name \in tables)
            /\ IF ok
               THEN /\ tables' = tables \ {table_name}
                    /\ page' = page \ {table_name}
                    /\ Proceed(<<Call("delete_table", table_name)>>, "t_delete_table")
               ELSE /\ Raise(<<Call("delete_table", table_name)>>, "ClientError")
                    /\ UNCHANGED <<page, tables>>
    /\ UNCHANGED <<mode, flags, warnings, buckets, objects, role, policies, endpoints,
                   issued, database, handoff, todo, wait, load, data>>

\* glue.py:176-179: one delete_table call, or the end of the page
TeardownDeleteTable ==
    /\ pc = "t_delete_table"
    /\ IF page = {}
       THEN /\ Goto(IF todo = {} THEN After("t_tables") ELSE "t_get_tables")
            /\ UNCHANGED <<page, tables>>
       ELSE \E table_name \in page, ok \in BOOLEAN :
            /\ ok => (database /\ table_name \in tables)
            /\ IF ok
               THEN /\ tables' = tables \ {table_name}
                    /\ page' = page \ {table_name}
                    /\ Proceed(<<Call("delete_table", table_name)>>, "t_delete_table")
               ELSE /\ Raise(<<Call("delete_table", table_name)>>, "ClientError")
                    /\ UNCHANGED <<page, tables>>
    /\ UNCHANGED <<mode, flags, warnings, buckets, objects, role, policies, endpoints,
                   issued, database, handoff, todo, wait, load, data>>

\* teardown.py:85-87 and glue.py delete_glue_database; the provider refuses to
\* delete a database that still has tables
TeardownDatabase ==
    /\ pc = "t_db"
    /\ IF flags.remove_glue_database
       THEN \E ok \in BOOLEAN :
            /\ ok => (database /\ tables = {})
            /\ IF ok
               THEN /\ database' = FALSE
                    /\ Proceed(<<Call("delete_database", DB_NAME)>>, After("t_db"))
               ELSE /\ Raise(<<Call("delete_database", DB_NAME)>>, "ClientError")
                    /\ UNCHANGED database
       ELSE /\ Goto(After("t_db"))
            /\ UNCHANGED database
    /\ UNCHANGED <<mode, flags, warnings, buckets, objects, role, policies, endpoints,
                   issued, tables, handoff, todo, page, wait, load, data>>

\* teardown.py:89-91 and s3.py:87-89: the collection bucket.objects.all()
TeardownBucket ==
    /\ pc = "t_bucket"
    /\ IF flags.remove_bucket
       THEN /\ todo' = (IF S3_BUCKET_NAME \in buckets THEN objects ELSE {})
            /\ Goto("t_delete_objects")
       ELSE /\ todo' = {}
            /\ Goto(After("t_bucket"))
    /\ UNCHANGED <<mode, flags, warnings, provider, handoff, page, wait, load, data>>

\* s3.py:90 bucket.objects.all().delete(): one page of the listing and the
\* delete_objects call for its keys. The batch call raises only when the whole
\* request is refused; keys it could not delete come back in the response,
\* which delete_bucket does not read. An empty listing ends the loop.
DeleteObjectsPage ==
    /\ pc = "t_delete_objects"
    /\ \E listing \in BOOLEAN :
        /\ listing => S3_BUCKET_NAME \in buckets
        /\ IF ~listing
           THEN /\ Raise(<<Call("list_objects", S3_BUCKET_NAME)>>, "ClientError")
                /\ UNCHANGED <<todo, objects>>
           ELSE IF todo = {}
           THEN /\ Proceed(<<Call("list_objects", S3_BUCKET_NAME)>>, "t_delete_bucket")
                /\ UNCHANGED <<todo, objects>>
           ELSE \E listed \in SUBSET todo :
                /\ Cardinality(listed) =
                      (IF Cardinality(todo) < PageSize THEN Cardinality(todo) ELSE PageSize)
                /\ LET calls == <<Call("list_objects", S3_BUCKET_NAME),
                                  Call("delete_objects", S3_BUCKET_NAME)>>
                   IN  \/ /\ Raise(calls, "ClientError")
                          /\ UNCHANGED <<todo, objects>>
                       \/ \E deleted \in SUBSET listed :
                          /\ objects' = objects \ deleted
                          /\ todo' = todo \ listed
                          /\ Proceed(calls, IF todo \ listed = {}
                                            THEN "t_delete_bucket"
                                            ELSE "t_delete_objects")
    /\ UNCHANGED <<mode, flags, warnings, buckets, role, policies, endpoints, issued,
                   database, tables, handoff, page, wait, load, data>>

\* s3.py:92-93 bucket.delete(); the provider refuses to delete a bucket that
\* still holds objects
DeleteBucket ==
    /\ pc = "t_delete_bucket"
    /\ \E ok \in BOOLEAN :
        /\ ok => (S3_BUCKET_NAME \in buckets /\ objects = {})
        /\ IF ok
           THEN /\ buckets' = buckets \ {S3_BUCKET_NAME}
                /\ Proceed(<<Call("delete_bucket", S3_BUCKET_NAME)>>, After("t_bucket"))
           ELSE /\ Raise(<<Call("delete_bucket", S3_BUCKET_NAME)>>, "ClientError")
                /\ UNCHANGED buckets
    /\ UNCHANGED <<mode, flags, warnings, objects, role, policies, endpoints, issued,
                   database, tables, handoff, todo, page, wait, load, data>>

Teardown ==
    \/ TeardownVpcEndpoint
    \/ TeardownPolicyS3 \/ TeardownPolicyGlue \/ TeardownRole
    \/ TeardownTables \/ TeardownGetTables \/ TeardownDeleteTable
    \/ TeardownDatabase
    \/ TeardownBucket \/ DeleteObjectsPage \/ DeleteBucket

Next == Main \/ Exit \/ Setup \/ Teardown

Spec == Init /\ [][Next]_vars


-----------------------------------------------------------------------------
(* wait_for_glue_database on its own, for any delay and max_attempts *)

DatabaseNames == {DB_NAME, "other_db"}

InitWait ==
    /\ mode = "wait" /\ flags = <<>> /\ pc = "wait"
    /\ result = "running" /\ error = "" /\ ops = <<>> /\ failedAt = 0 /\ warnings = <<>>
    /\ buckets = {} /\ objects = {} /\ role = FALSE /\ policies = {}
    /\ endpoints = {} /\ issued = 0 /\ database = FALSE /\ tables = {}
    /\ handoff = NoFile /\ todo = {} /\ page = {} /\ load = LoadIdle
    /\ data = DataIdle
    /\ \E database_name \in DatabaseNames, delay \in 1..MaxDelay,
          max_attempts \in 0..MaxAttemptsBound :
            wait = WaitStart(database_name, delay, max_attempts)

waitFrame == <<mode, flags, pc, result, error, ops, failedAt, warnings, provider,
               handoff, todo, page, load, data>>

\* common.py:35-39: the next pass of the loop makes its get_database call
WaitPoll ==
    /\ pc = "wait" /\ wait.status = "polling"
    /\ wait.attempt < wait.max_attempts
    /\ \E resp \in Responses : wait' = WaitIter(wait, resp)
    /\ UNCHANGED waitFrame

\* common.py:47: asyncio.sleep(delay) returns
WaitSleep ==
    /\ pc = "wait" /\ wait.status = "sleeping"
    /\ wait' = WaitSlept(wait)
    /\ UNCHANGED waitFrame

\* common.py:49: the loop ran out of attempts
WaitTimeout ==
    /\ pc = "wait" /\ wait.status = "polling"
    /\ wait.attempt >= wait.max_attempts
    /\ wait' = WaitExhausted(wait)
    /\ UNCHANGED waitFrame

NextWait == WaitPoll \/ WaitSleep \/ WaitTimeout

SpecWait == InitWait /\ [][NextWait]_vars


-----------------------------------------------------------------------------
(* load_glue_table_configs on its own, for any tree of two levels *)

EntityNames == {"customer", "step_trainer"}
SubfolderNames == {"landing", "trusted"}

\* texts of a schema.json: an empty array, and two columns in either order
SchemaTexts == {<<>>, <<"id", "string", "ts", "bigint">>, <<"ts", "bigint", "id", "string">>}

\* an entry of an entity directory: a file, a directory without schema.json, or
\* a directory with one
SubfolderEntries ==
    {[is_dir |-> FALSE, has_schema |-> FALSE, text |-> <<>>],
     [is_dir |-> TRUE, has_schema |-> FALSE, text |-> <<>>]}
    \cup {[is_dir |-> TRUE, has_schema |-> TRUE, text |-> t] : t \in SchemaTexts}

\* an entry of the schemas directory: a file, or a directory with any entries
EntityEntries ==
    {[is_dir |-> FALSE, subs |-> <<>>]}
    \cup {[is_dir |-> TRUE, subs |-> subs] :
             subs \in UNION {[S -> SubfolderEntries] : S \in SUBSET SubfolderNames}}

SchemaTrees == UNION {[E -> EntityEntries] : E \in SUBSET EntityNames}

InitLoad ==
    /\ mode = "load" /\ flags = <<>> /\ pc = "load"
    /\ result = "running" /\ error = "" /\ ops = <<>> /\ failedAt = 0 /\ warnings = <<>>
    /\ buckets = {} /\ objects = {} /\ role = FALSE /\ policies = {}
    /\ endpoints = {} /\ issued = 0 /\ database = FALSE /\ tables = {}
    /\ handoff = NoFile /\ todo = {} /\ page = {} /\ wait = WaitIdle
    /\ data = DataIdle
    /\ \E base \in SchemaTrees, database_name \in DatabaseNames :
            load = LoadStart(base, database_name)

loadFrame == <<mode, flags, pc, result, error, ops, failedAt, warnings, provider,
               handoff, todo, page, wait, data>>

\* setup.py:57: iterdir() of the schemas directory yields its next entry, in
\* the order of the platform
LoadNextEntity ==
    /\ pc = "load" /\ load.status = "walking"
    /\ load.subfolders = {}
    /\ \E e \in load.entities : load' = LoadEntity(load, e)
    /\ UNCHANGED loadFrame

\* setup.py:61: iterdir() of the entity directory yields its next entry
LoadNextSubfolder ==
    /\ pc = "load" /\ load.status = "walking"
    /\ \E sub \in load.subfolders : load' = LoadSubfolder(load, sub)
    /\ UNCHANGED loadFrame

\* setup.py:89: both loops are done
LoadReturn ==
    /\ pc = "load" /\ load.status = "walking"
    /\ load.subfolders = {} /\ load.entities = {}
    /\ load' = [load EXCEPT !.status = "returned"]
    /\ UNCHANGED loadFrame

NextLoad == LoadNextEntity \/ LoadNextSubfolder \/ LoadReturn

SpecLoad == InitLoad /\ [][NextLoad]_vars


-----------------------------------------------------------------------------
(* s3.py create_and_wait_for_bucket on its own, for any bucket_name *)

BucketNames == {S3_BUCKET_NAME, "other-bucket", "logs-bucket", "tmp-bucket"}

\* the call is made with any name, in an account that holds any of the buckets
InitBucket ==
    /\ mode = "bucket" /\ pc = "b_create"
    /\ result = "running" /\ error = "" /\ ops = <<>> /\ failedAt = 0 /\ warnings = <<>>
    /\ objects = {} /\ role = FALSE /\ policies = {}
    /\ endpoints = {} /\ issued = 0 /\ database = FALSE /\ tables = {}
    /\ handoff = NoFile /\ todo = {} /\ page = {} /\ wait = WaitIdle /\ load = LoadIdle
    /\ data = DataIdle
    /\ \E bucket_name \in BucketNames : flags = [bucket_name |-> bucket_name]
    /\ buckets \in SUBSET BucketNames

\* common.py:68 and s3.py:54: the wrapper awaits the decorated function, which
\* awaits create_bucket(bucket_name)
BucketCreate ==
    /\ pc = "b_create"
    /\ create_bucket(flags.bucket_name, "b_wait")

\* common.py:70-76: the waiter is run with the waiter_kwargs of the decorator,
\* then the wrapper returns the client
BucketWait ==
    /\ pc = "b_wait"
    /\ wait_for_bucket("return")

NextBucket == BucketCreate \/ BucketWait

SpecBucket == InitBucket /\ [][NextBucket]_vars


-----------------------------------------------------------------------------
(* load_data_to_bucket on its own, for any data directory *)

FolderNames == {"customer", "step_trainer", "notes"}
FileNames == {"a.json", "b.json"}

\* the entries of a landing/ directory: regular files and others
LandingEntries == UNION {[N -> {[is_file |-> TRUE], [is_file |-> FALSE]}] : N \in SUBSET FileNames}

\* an entry of the data directory: a file, a directory without landing/, or a
\* directory whose landing/ holds any entries
FolderEntries ==
    {[is_dir |-> FALSE, has_landing |-> FALSE, entries |-> <<>>],
     [is_dir |-> TRUE, has_landing |-> FALSE, entries |-> <<>>]}
    \cup {[is_dir |-> TRUE, has_landing |-> TRUE, entries |-> e] : e \in LandingEntries}

DataTrees == UNION {[F -> FolderEntries] : F \in SUBSET FolderNames}

\* the data directory exists; the bucket may or may not
InitData ==
    /\ mode = "data" /\ flags = <<>> /\ pc = "data"
    /\ result = "running" /\ error = "" /\ ops = <<>> /\ failedAt = 0 /\ warnings = <<>>
    /\ objects = {} /\ role = FALSE /\ policies = {}
    /\ endpoints = {} /\ issued = 0 /\ database = FALSE /\ tables = {}
    /\ handoff = NoFile /\ todo = {} /\ page = {} /\ wait = WaitIdle /\ load = LoadIdle
    /\ buckets \in {{}, {S3_BUCKET_NAME}}
    /\ \E base \in DataTrees : data = DataStart(base, S3_BUCKET_NAME)

dataFrame == <<mode, flags, pc, result, error, ops, failedAt, warnings, buckets, role,
               policies, endpoints, issued, database, tables, handoff, todo, page,
               wait, load>>

\* s3.py:113: iterdir() of the data directory yields its next entry
DataNextFolder ==
    /\ pc = "data" /\ data.status = "walking"
    /\ data.files = {}
    /\ \E f \in data.folders : data' = DataFolder(data, f)
    /\ UNCHANGED <<dataFrame, objects>>

\* s3.py:121: glob("*") of landing/ yields its next entry; upload_file of a
\* regular file returns only if the bucket exists
DataNextFile ==
    /\ pc = "data" /\ data.status = "walking"
    /\ \E n \in data.files, ok \in BOOLEAN :
        /\ ok => data.bucket_name \in buckets
        /\ data' = DataFile(data, n, ok)
        /\ objects' = IF ok /\ data.base[data.folder].entries[n].is_file
                      THEN objects \cup {s3_key(data.folder, n)}
                      ELSE objects
    /\ UNCHANGED dataFrame

\* both loops are done
DataReturn ==
    /\ pc = "data" /\ data.status = "walking"
    /\ data.files = {} /\ data.folders = {}
    /\ data' = [data EXCEPT !.status = "returned"]
    /\ UNCHANGED <<dataFrame, objects>>

NextData == DataNextFolder \/ DataNextFile \/ DataReturn

SpecData == InitData /\ [][NextData]_vars


-----------------------------------------------------------------------------
(* Vocabulary of the properties *)

\* the setup step a creation call belongs to, "" for any other call
SetupStepOf(op) ==
    CASE op \in {"create_bucket", "wait_bucket_exists"}  -> "bucket"
      [] op \in {"create_role", "put_role_policy"}       -> "identity"
      [] op \in {"create_vpc_endpoint", "pickle_dump"}   -> "endpoint"
      [] op = "upload_file"                              -> "data"
      [] op \in {"create_database", "get_database"}      -> "database"
      [] op = "create_table"                             -> "tables"
      [] OTHER                                           -> ""

\* the teardown step a deletion call belongs to, "" for any other call
TeardownStepOf(op) ==
    CASE op \in {"pickle_load", "delete_vpc_endpoints"}              -> "endpoint"
      [] op \in {"delete_role_policy", "delete_role"}                -> "identity"
      [] op \in {"get_tables", "delete_table"}                       -> "tables"
      [] op = "delete_database"                                      -> "database"
      [] op \in {"list_objects", "delete_objects", "delete_bucket"}  -> "bucket"
      [] OTHER                                                       -> ""

Repeat(x, n) == [i \in 1..n |-> x]

IsPrefix(s, t) == Len(s) <= Len(t) /\ \A i \in 1..Len(s) : s[i] = t[i]

\* a sequence with each run of equal neighbours reduced to one entry
RECURSIVE Compress(_)
Compress(s) ==
    IF Len(s) <= 1 THEN s
    ELSE IF s[1] = s[2] THEN Compress(Tail(s))
    ELSE <<s[1]>> \o Compress(Tail(s))

Position(seq, x) == CHOOSE i \in 1..Len(seq) : seq[i] = x

SetupSteps == [i \in 1..Len(ops) |-> SetupStepOf(ops[i].op)]
TeardownSteps == [i \in 1..Len(ops) |-> TeardownStepOf(ops[i].op)]

\* the creation calls of a setup run in which nothing fails, step after step
ExpectedSetupOps(f) ==
    (IF f.init_bucket THEN <<"create_bucket", "wait_bucket_exists">> ELSE <<>>) \o
    (IF f.init_iam_roles
     THEN <<"create_role", "put_role_policy", "put_role_policy">> ELSE <<>>) \o
    (IF f.init_vpc_endpoint THEN <<"create_vpc_endpoint", "pickle_dump">> ELSE <<>>) \o
    (IF f.load_sample_data THEN Repeat("upload_file", Cardinality(LandingKeys)) ELSE <<>>) \o
    (IF f.init_glue_database THEN <<"create_database", "get_database">> ELSE <<>>) \o
    (IF f.init_glue_tables THEN Repeat("create_table", Cardinality(TableNames)) ELSE <<>>)

-----------------------------------------------------------------------------
(* Properties *)

\* C1: for every combination of the six setup flags, a setup run in which no
\* operation fails issues exactly the creation calls of its enabled steps, in
\* the order bucket, identity, endpoint, data, database, tables, and none for
\* a disabled step; while it runs, the calls issued are a prefix of that list.
C1_SetupOrder ==
    (mode = "setup" /\ result # "raised") =>
        /\ IsPrefix(OpNames(ops), ExpectedSetupOps(flags))
        /\ (result = "ok" => OpNames(ops) = ExpectedSetupOps(flags))

C1_Witness ==
    /\ mode = "setup" /\ result = "ok"
    /\ ~flags.init_bucket /\ flags.init_iam_roles /\ flags.init_vpc_endpoint
    /\ flags.load_sample_data /\ ~flags.init_glue_database /\ flags.init_glue_tables
    /\ Len(ops) = 9


\* the order in which teardown.run takes its steps
TeardownOrder == <<"endpoint", "identity", "tables", "database", "bucket">>

\* the setup order of the same resources, reversed
ReversedSetupOrder == <<"tables", "database", "endpoint", "identity", "bucket">>

\* the steps of `order` a teardown run with flags f issues calls for when
\* nothing fails: the endpoint step issues calls only if the handoff file exists
TeardownEnabled(f, order) ==
    LET on(step) ==
            CASE step = "endpoint" -> f.remove_vpc_endpoint /\ handoff.exists
              [] step = "identity" -> f.remove_iam_roles
              [] step = "tables"   -> f.remove_glue_tables
              [] step = "database" -> f.remove_glue_database
              [] step = "bucket"   -> f.remove_bucket
    IN  SelectSeq(order, on)

\* the calls of a teardown run come in the order the steps have in `order`
InStepOrder(steps, order) ==
    \A i, j \in 1..Len(steps) :
        i < j => Position(order, steps[i]) <= Position(order, steps[j])

\* C2 as stated: teardown issues its deletions in the exact reverse of the
\* setup order: tables, database, endpoint, identity, bucket.
C2_ReverseOfSetupOrder ==
    mode = "teardown" => InStepOrder(TeardownSteps, ReversedSetupOrder)

\* C2, amended: for every combination of the teardown flags, whether or not a
\* call fails, the deletions come in the order endpoint, identity, tables,
\* database, bucket; the reverse of the setup order holds only among tables,
\* database and bucket, and the endpoint and identity steps come first.
C2_TeardownStepOrder ==
    mode = "teardown" =>
        /\ \A i \in 1..Len(ops) : TeardownSteps[i] # ""
        /\ InStepOrder(TeardownSteps, TeardownOrder)

C2_Witness ==
    /\ mode = "teardown" /\ result = "ok"
    /\ Compress(TeardownSteps) = TeardownOrder

\* C3: for every combination of the five teardown flags, a teardown run in
\* which no operation fails issues calls for exactly its enabled steps, in the
\* order endpoint, identity (both policies, then the role), tables, database,
\* bucket, and none for a step whose flag is false.
C3_TeardownSequence ==
    (mode = "teardown" /\ result = "ok") =>
        /\ Compress(TeardownSteps) = TeardownEnabled(flags, TeardownOrder)
        /\ flags.remove_iam_roles =>
              SelectSeq(OpNames(ops), LAMBDA o : TeardownStepOf(o) = "identity")
                 = <<"delete_role_policy", "delete_role_policy", "delete_role">>
        /\ flags.remove_bucket => ops[Len(ops)].op = "delete_bucket"

C3_Witness ==
    /\ mode = "teardown" /\ result = "ok"
    /\ flags.remove_vpc_endpoint /\ handoff.exists
    /\ ~flags.remove_iam_roles /\ flags.remove_glue_tables
    /\ ~flags.remove_glue_database /\ flags.remove_bucket
    /\ \E i \in 1..Len(ops) : ops[i].op = "delete_table"
    /\ \E i \in 1..Len(ops) : ops[i].op = "delete_objects"

AllNotFound(seen) == \A i \in 1..Len(seen) : seen[i] = "not_found"

\* C4: if get_database reports not-found on its first k attempts, k below
\* max_attempts, and then succeeds, wait_for_glue_database returns without
\* error after exactly k + 1 get_database calls.
C4_ReturnsAfterKPlusOne ==
    \A k \in 0..MaxAttemptsBound + 1 :
        (/\ Len(wait.seen) = k + 1
         /\ AllNotFound(SubSeq(wait.seen, 1, k))
         /\ wait.seen[k + 1] = "ok")
        => /\ wait.status = "returned"
           /\ wait.error = ""
           /\ wait.calls = k + 1
           /\ k < wait.max_attempts

C4_Witness ==
    /\ wait.status = "returned"
    /\ wait.max_attempts = wait.calls
    /\ wait.calls >= 3

\* C5: if get_database reports not-found on all max_attempts attempts, the
\* wait never returns success and ends with a timeout error that names the
\* database it was called with, after max_attempts calls.
C5_TimeoutNamesDatabase ==
    AllNotFound(wait.seen) =>
        /\ wait.status # "returned"
        /\ wait.calls <= wait.max_attempts
        /\ (wait.status = "raised" =>
                /\ wait.error = "TimeoutError: " \o wait.database_name
                /\ wait.calls = wait.max_attempts
                /\ Len(wait.seen) = wait.max_attempts)

C5_Witness ==
    /\ wait.status = "raised"
    /\ wait.max_attempts >= 2
    /\ AllNotFound(wait.seen)
    /\ wait.database_name # DB_NAME

\* C6: a get_database call that fails with an error other than not-found ends
\* the wait at once with that error: it is the last call, no sleep follows it,
\* and the error is not a timeout.
C6_OtherErrorPropagates ==
    (\E i \in 1..Len(wait.seen) : wait.seen[i] = "error") =>
        /\ wait.seen[Len(wait.seen)] = "error"
        /\ AllNotFound(SubSeq(wait.seen, 1, Len(wait.seen) - 1))
        /\ wait.status = "raised"
        /\ wait.error = "ClientError"
        /\ wait.calls = Len(wait.seen)
        /\ wait.sleeps = Len(wait.seen) - 1

C6_Witness ==
    /\ wait.status = "raised"
    /\ wait.error = "ClientError"
    /\ wait.calls >= 2
    /\ wait.calls < wait.max_attempts

\* C7: a teardown run with remove_vpc_endpoint true and no handoff file issues
\* no endpoint call, logs exactly one warning, does not raise at that step,
\* and issues the calls of the other enabled steps in their order: all of
\* them when nothing fails.
C7_MissingHandoffSkipsEndpoint ==
    (mode = "teardown" /\ flags.remove_vpc_endpoint /\ ~handoff.exists /\ pc # "t_vpc") =>
        /\ Len(warnings) = 1
        /\ \A i \in 1..Len(ops) : TeardownSteps[i] # "endpoint"
        /\ (result = "raised" => failedAt >= 1 /\ failedAt = Len(ops))
        /\ IsPrefix(Compress(TeardownSteps),
                    TeardownEnabled([flags EXCEPT !.remove_vpc_endpoint = FALSE],
                                    TeardownOrder))
        /\ (result = "ok" =>
                Compress(TeardownSteps) =
                    TeardownEnabled([flags EXCEPT !.remove_vpc_endpoint = FALSE],
                                    TeardownOrder))

C7_Witness ==
    /\ mode = "teardown" /\ flags.remove_vpc_endpoint /\ ~handoff.exists
    /\ result = "ok"
    /\ Compress(TeardownSteps) = <<"identity", "tables", "database", "bucket">>

\* C8: the bucket-delete call is never issued while an object of the bucket
\* remains.
C8_NoBucketDeleteWhileObjectsRemain ==
    (mode = "teardown" /\ Len(ops) > 0 /\ ops[Len(ops)].op = "delete_bucket") =>
        objects = {}

\* C9: the endpoint-delete call of a teardown run carries the identifier of
\* the create response the last setup run with init_vpc_endpoint persisted,
\* which is the identifier the provider handed out last.
C9_HandoffRoundTrip ==
    /\ handoff.exists =>
          /\ issued >= 1
          /\ pickle_load(handoff.bytes) =
                EndpointResponse(EndpointIds[issued], VPC_ID, ROUTE_TABLE_ID,
                                 "com.amazonaws." \o REGION \o ".s3")
    /\ mode = "teardown" =>
          \A i \in 1..Len(ops) :
              ops[i].op = "delete_vpc_endpoints" =>
                  issued >= 1 /\ ops[i].arg = EndpointIds[issued]

C9_Witness ==
    /\ mode = "teardown"
    /\ issued = 2
    /\ \E i \in 1..Len(ops) :
          ops[i].op = "delete_vpc_endpoints" /\ ops[i].arg = EndpointIds[2]
    /\ EndpointIds[2] \notin endpoints

\* C10: in a setup run, once a call of an enabled step has failed, the run has
\* ended with that failure raised to the caller and no further call is issued.
C10_SetupStopsAtFailure ==
    (mode = "setup" /\ (failedAt > 0 \/ result = "raised")) =>
        /\ result = "raised"
        /\ error # ""
        /\ pc = "exit"
        /\ failedAt = Len(ops)

C10_Witness ==
    /\ mode = "setup" /\ result = "raised"
    /\ error = "WaiterError"
    /\ flags.init_iam_roles /\ flags.load_sample_data /\ flags.init_glue_tables

\* C11: in a teardown run a failure of one enabled step does not block the
\* later steps: when the run has ended, every enabled step has been attempted,
\* whatever failed.
C11_EveryEnabledStepAttempted ==
    (mode = "teardown" /\ pc = "exit") =>
        LET enabled == TeardownEnabled(flags, TeardownOrder) IN
        \A k \in 1..Len(enabled) :
            \E i \in 1..Len(ops) : TeardownSteps[i] = enabled[k]

C13_BothModesIsUsageError ==
    /\ mode = "both" =>
          /\ result = "usage" /\ error = "SystemExit(1)"
          /\ pc = "exit"
          /\ ops = <<>> /\ flags = <<>> /\ warnings = <<>>
    /\ result = "usage" => mode = "both"
    /\ pc \notin {"start", "exit"} => mode \in {"setup", "teardown"}

C13_Witness ==
    /\ mode = "both" /\ result = "usage"
    /\ buckets # {} /\ role /\ handoff.exists

\* the steps of setup.run in the order of its blocks
SetupOrder == <<"bucket", "identity", "endpoint", "data", "database", "tables">>

\* the flag of setup.run that gates a step
SetupFlagOf(f, step) ==
    CASE step = "bucket"   -> f.init_bucket
      [] step = "identity" -> f.init_iam_roles
      [] step = "endpoint" -> f.init_vpc_endpoint
      [] step = "data"     -> f.load_sample_data
      [] step = "database" -> f.init_glue_database
      [] step = "tables"   -> f.init_glue_tables

\* the step whose block holds a position of setup.run
SetupBlockOf(label) ==
    CASE label \in {"s_bucket", "s_bucket_wait"}              -> "bucket"
      [] label \in {"s_role", "s_policy_s3", "s_policy_glue"} -> "identity"
      [] label = "s_vpc"                                      -> "endpoint"
      [] label \in {"s_data", "s_upload"}                     -> "data"
      [] label \in {"s_db", "s_db_wait"}                      -> "database"
      [] label \in {"s_tables", "s_create_table"}             -> "tables"

\* how far a setup run has come: the place in SetupOrder of the step it is in,
\* of the step whose call failed, or one past the last step after a normal end
SetupProgress ==
    IF result = "ok" THEN Len(SetupOrder) + 1
    ELSE IF result = "raised" THEN Position(SetupOrder, SetupSteps[failedAt])
    ELSE Position(SetupOrder, SetupBlockOf(pc))

\* C14: the steps of setup.run are independently toggleable: a step whose
\* block the run has passed, no earlier enabled step having failed, has issued
\* its calls exactly when its own flag is true, whatever the flags of the
\* other steps are; a step whose flag is false never issues a call.
C14_StepsIndependentlyToggleable ==
    mode = "setup" =>
        \A k \in 1..Len(SetupOrder) :
            LET step == SetupOrder[k]
                attempted == \E i \in 1..Len(ops) : SetupSteps[i] = step
            IN  /\ attempted => SetupFlagOf(flags, step)
                /\ k < SetupProgress => (attempted <=> SetupFlagOf(flags, step))

C14_Witness ==
    /\ mode = "setup" /\ result = "ok"
    /\ ~flags.init_bucket /\ ~flags.init_glue_database /\ flags.init_glue_tables
    /\ ~flags.init_iam_roles /\ ~flags.init_vpc_endpoint /\ ~flags.load_sample_data
    /\ OpNames(ops) = <<"create_table", "create_table">>

\* C15: in a setup run with init_vpc_endpoint true, every call of a later
\* step (sample-data upload, database creation and wait, table creation) comes
\* after the pickle.dump that follows the create_vpc_endpoint call of this
\* run, and from then on the handoff file holds the full create response of
\* this run, also when a later step fails.
C15_HandoffWrittenBeforeLaterSteps ==
    (mode = "setup" /\ flags.init_vpc_endpoint) =>
        \A i \in 1..Len(ops) :
            SetupSteps[i] \in {"data", "database", "tables"} =>
                \E j \in 2..(i - 1) :
                    /\ ops[j].op = "pickle_dump"
                    /\ ops[j - 1].op = "create_vpc_endpoint"
                    /\ ops[j].arg = EndpointIds[issued]
                    /\ handoff.exists
                    /\ pickle_load(handoff.bytes) =
                          EndpointResponse(ops[j].arg, VPC_ID, ROUTE_TABLE_ID,
                                           "com.amazonaws." \o REGION \o ".s3")

C15_Witness ==
    /\ mode = "setup" /\ flags.init_vpc_endpoint
    /\ result = "raised" /\ ops[failedAt].op = "create_table"
    /\ \E i \in 1..Len(ops) : ops[i].op = "upload_file"
    /\ issued = 2 /\ handoff.exists
    /\ pickle_load(handoff.bytes)["VpcEndpoint"]["VpcEndpointId"] = EndpointIds[2]

\* the resource a call of setup.run that returned has created is there
SetupCallKept(call) ==
    CASE call.op = "create_bucket"       -> call.arg \in buckets
      [] call.op = "wait_bucket_exists"  -> call.arg \in buckets
      [] call.op = "create_role"         -> role
      [] call.op = "put_role_policy"     -> role /\ call.arg \in policies
      [] call.op = "create_vpc_endpoint" -> EndpointIds[issued] \in endpoints
      [] call.op = "pickle_dump"         -> handoff.exists /\ call.arg \in endpoints
      [] call.op = "upload_file"         -> call.arg \in objects
      [] call.op = "create_database"     -> database
      [] call.op = "get_database"        -> database
      [] call.op = "create_table"        -> database /\ call.arg \in tables
      [] OTHER                           -> FALSE

\* C16: setup never compensates: every call of a setup run, including a run
\* that a failed step ended, is a creation call (none deletes or detaches),
\* and what each call that returned has created still exists, up to and at
\* the end of the run.
C16_SetupNeverCompensates ==
    mode = "setup" =>
        \A i \in 1..Len(ops) :
            /\ SetupSteps[i] # ""
            /\ TeardownSteps[i] = ""
            /\ i # failedAt => SetupCallKept(ops[i])

C16_Witness ==
    /\ mode = "setup" /\ result = "raised" /\ pc = "exit"
    /\ failedAt = Len(ops) /\ Len(ops) > 7
    /\ ops[failedAt].op = "create_table"
    /\ OpNames(SubSeq(ops, 1, 7)) =
          <<"create_bucket", "wait_bucket_exists", "create_role", "put_role_policy",
            "put_role_policy", "create_vpc_endpoint", "pickle_dump">>
    /\ \E i \in 1..Len(ops) : i # failedAt /\ ops[i].op = "create_table"

\* the places of the calls named op in the log of the run
CallsOf(op) == {i \in 1..Len(ops) : ops[i].op = op}

\* the tables block of a teardown run is behind it: the run is in a later
\* block, has returned, or was ended by a call of a later step
TablesBlockPassed ==
    \/ pc \in {"t_db", "t_bucket", "t_delete_objects", "t_delete_bucket"}
    \/ result = "ok"
    \/ result = "raised" /\ TeardownSteps[failedAt] \in {"database", "bucket"}

\* C17: delete_all_tables_in_database deletes the tables of every page of the
\* listing: inside its loop the tables left are those of the pages not yet
\* fetched and the rest of the current page, and once the block is passed no
\* table is left; with remove_glue_database also true, the delete_database
\* call comes after every delete_table call, when no table is left.
C17_AllPagesDeletedBeforeDatabase ==
    (mode = "teardown" /\ flags.remove_glue_tables) =>
        /\ pc \in {"t_get_tables", "t_delete_table"} => tables = todo \cup page
        /\ TablesBlockPassed =>
              /\ tables = {}
              /\ CallsOf("get_tables") # {}
              /\ Cardinality(CallsOf("delete_table")) <=
                    TablePageSize * Cardinality(CallsOf("get_tables"))
        /\ \A i \in CallsOf("delete_database") :
              /\ tables = {}
              /\ \A j \in CallsOf("delete_table") \cup CallsOf("get_tables") : j < i

C17_Witness ==
    /\ mode = "teardown" /\ flags.remove_glue_tables /\ flags.remove_glue_database
    /\ CallsOf("delete_database") # {} /\ ~database
    /\ Cardinality(CallsOf("delete_table")) = Cardinality(TableNames)
    /\ Cardinality(CallsOf("get_tables")) * TablePageSize >= Cardinality(TableNames)
    /\ Cardinality(TableNames) >= 2

\* the subentity directories of a tree, as <<entity, subentity>>, that hold
\* (has = TRUE) or lack (has = FALSE) a schema file
SubentityDirs(base, has) ==
    {p \in (DOMAIN base) \X SubfolderNames :
        /\ base[p[1]].is_dir
        /\ p[2] \in DOMAIN base[p[1]].subs
        /\ base[p[1]].subs[p[2]].is_dir
        /\ base[p[1]].subs[p[2]].has_schema = has}

\* C18: for every tree of two levels, load_glue_table_configs returns without
\* error exactly one table definition per subentity directory that holds a
\* schema file, and none for any other entry; a subentity directory without
\* one is skipped with one warning. Each definition has table_name
\* entity_subentity, folder prefix entity/subentity/, the database name given,
\* and the columns of the file in file order.
C18_OneDefinitionPerSchemaFile ==
    /\ load.status # "raised"
    /\ load.status = "returned" =>
          LET valid == SubentityDirs(load.base, TRUE)
              defs(p) == {i \in 1..Len(load.configs) :
                             load.configs[i].folder_prefix = p[1] \o "/" \o p[2] \o "/"}
          IN  /\ Len(load.configs) = Cardinality(valid)
              /\ Len(load.warnings) = Cardinality(SubentityDirs(load.base, FALSE))
              /\ \A p \in valid :
                    /\ Cardinality(defs(p)) = 1
                    /\ \A i \in defs(p) :
                          LET config == load.configs[i]
                              text == load.base[p[1]].subs[p[2]].text
                          IN  /\ config.table_name = p[1] \o "_" \o p[2]
                              /\ config.database_name = load.database_name
                              /\ Len(config.columns) * 2 = Len(text)
                              /\ \A k \in 1..Len(config.columns) :
                                    /\ config.columns[k].Name = text[2 * k - 1]
                                    /\ config.columns[k].Type = text[2 * k]

C18_Witness ==
    /\ load.status = "returned"
    /\ DOMAIN load.base = EntityNames
    /\ ~load.base["customer"].is_dir
    /\ Len(load.configs) = 1 /\ Len(load.warnings) = 1
    /\ load.configs[1].table_name = "step_trainer_trusted"
    /\ load.configs[1].columns = <<[Name |-> "ts", Type |-> "bigint"],
                                   [Name |-> "id", Type |-> "string"]>>
    /\ load.database_name # DB_NAME

\* the calls a step of the run adds to its log
NewCalls == IF Len(ops') > Len(ops) THEN SubSeq(ops', Len(ops) + 1, Len(ops')) ELSE <<>>

\* one step of a run, as far as the handoff file goes
HandoffStep ==
    /\ handoff' # handoff =>
          /\ mode = "setup" /\ flags.init_vpc_endpoint /\ pc = "s_vpc"
          /\ handoff'.exists
          /\ OpNames(NewCalls) = <<"create_vpc_endpoint", "pickle_dump">>
    /\ \A i \in 1..Len(NewCalls) :
          /\ NewCalls[i].op = "pickle_dump" =>
                mode = "setup" /\ flags.init_vpc_endpoint /\ handoff' # handoff
          /\ NewCalls[i].op = "pickle_load" =>
                mode = "teardown" /\ flags.remove_vpc_endpoint /\ handoff' = handoff
    /\ (mode = "teardown" /\ pc = "t_vpc" /\ flags.remove_vpc_endpoint /\ handoff.exists) =>
          LET id == pickle_load(handoff.bytes)["VpcEndpoint"]["VpcEndpointId"]
          IN  /\ NewCalls = <<Call("pickle_load", id), Call("delete_vpc_endpoints", id)>>
              /\ handoff' = handoff

\* C19: the handoff file is written only by the endpoint block of a setup run
\* with init_vpc_endpoint true and read only by a teardown run with
\* remove_vpc_endpoint true; no step of a teardown run removes or rewrites it,
\* so a teardown run with remove_vpc_endpoint true that finds the file issues
\* the endpoint-delete call with the identifier in it, also when an earlier
\* teardown has already removed that endpoint.
C19_HandoffLifecycle == [][HandoffStep]_vars

\* the file names an endpoint that is gone, and the call for it was refused
C19_Witness ==
    /\ mode = "teardown" /\ flags.remove_vpc_endpoint
    /\ handoff.exists /\ issued >= 1
    /\ result = "raised" /\ failedAt = 2
    /\ ops = <<Call("pickle_load", EndpointIds[issued]),
               Call("delete_vpc_endpoints", EndpointIds[issued])>>
    /\ ops[2].arg = pickle_load(handoff.bytes)["VpcEndpoint"]["VpcEndpointId"]
    /\ EndpointIds[issued] \notin endpoints

\* a setup run, a teardown run, with every step enabled
FullSetup == mode = "setup" /\ \A k \in 1..Len(SetupOrder) : SetupFlagOf(flags, SetupOrder[k])
FullTeardown == mode = "teardown" /\ \A f \in DOMAIN flags : flags[f]

\* the endpoint the handoff file names
HandoffEndpoint == pickle_load(handoff.bytes)["VpcEndpoint"]["VpcEndpointId"]

\* everything a setup run with every step enabled makes is there
AllProvisioned ==
    /\ S3_BUCKET_NAME \in buckets /\ objects = LandingKeys
    /\ role /\ policies = {S3_ROLE_POLICY_NAME, GLUE_ROLE_POLICY_NAME}
    /\ handoff.exists /\ HandoffEndpoint \in endpoints
    /\ database /\ tables = TableNames

\* none of it is there
NothingRemains ==
    /\ S3_BUCKET_NAME \notin buckets /\ objects = {}
    /\ ~role /\ policies = {}
    /\ handoff.exists => HandoffEndpoint \notin endpoints
    /\ ~database /\ tables = {}

\* the teardown run has met no failure, and what is left is what a complete
\* setup made less what the calls of the run so far were to delete
CleanSoFar ==
    LET args(op) == {ops[i].arg : i \in CallsOf(op)} IN
    /\ FullTeardown /\ result # "raised" /\ handoff.exists
    /\ (HandoffEndpoint \in endpoints) <=> (CallsOf("delete_vpc_endpoints") = {})
    /\ policies = {S3_ROLE_POLICY_NAME, GLUE_ROLE_POLICY_NAME} \ args("delete_role_policy")
    /\ role <=> (CallsOf("delete_role") = {})
    /\ tables = TableNames \ args("delete_table")
    /\ database <=> (CallsOf("delete_database") = {})
    /\ objects = (IF CallsOf("delete_objects") = {} THEN LandingKeys ELSE todo)
    /\ (S3_BUCKET_NAME \in buckets) <=> (CallsOf("delete_bucket") = {})

\* the provider can serve the call in the state it is made in
Servable(call) ==
    CASE call.op = "delete_vpc_endpoints" -> call.arg \in endpoints
      [] call.op = "delete_role_policy"   -> role /\ call.arg \in policies
      [] call.op = "delete_role"          -> role /\ policies = {}
      [] call.op = "get_tables"           -> database
      [] call.op = "delete_table"         -> database /\ call.arg \in tables
      [] call.op = "delete_database"      -> database /\ tables = {}
      [] call.op = "list_objects"         -> call.arg \in buckets
      [] call.op = "delete_objects"       -> call.arg \in buckets
      [] call.op = "delete_bucket"        -> call.arg \in buckets /\ objects = {}
      [] OTHER                            -> TRUE

\* in this step the provider refuses only what it cannot serve: a resource
\* that is not there or that still has dependents; a call it can serve is
\* carried out in full
RejectsOnlyDependents ==
    /\ (result' = "raised" /\ NewCalls # <<>>) => ~Servable(NewCalls[Len(NewCalls)])
    /\ \A i \in 1..Len(NewCalls) :
          /\ (NewCalls[i].op = "delete_objects" /\ result' # "raised") =>
                objects' = objects \ (todo \ todo')
          /\ (NewCalls[i].op = "delete_vpc_endpoints" /\ result' # "raised") =>
                NewCalls[i].arg \notin endpoints'

FullCycleStep ==
    /\ (FullSetup /\ result = "ok") => AllProvisioned
    /\ (pc = "start" /\ AllProvisioned /\ FullTeardown') => CleanSoFar'
    /\ (CleanSoFar /\ pc # "exit" /\ RejectsOnlyDependents) => CleanSoFar'
    /\ (CleanSoFar /\ result = "ok") => NothingRemains

\* C20: against a provider that refuses only what has dependents (a role with
\* policies, a bucket with objects, a database with tables) or is not there:
\* a setup run with every step enabled that completes leaves every resource
\* in place, and a teardown run with every step enabled that starts from
\* there meets no refusal at any call and ends with none of the bucket, its
\* objects, the role, its policies, the endpoint, the database or its tables
\* remaining.
C20_FullTeardownUndoesFullSetup == [][FullCycleStep]_vars

C20_Witness ==
    /\ CleanSoFar /\ result = "ok" /\ NothingRemains
    /\ Compress(TeardownSteps) = TeardownOrder
    /\ Cardinality(CallsOf("delete_table")) = Cardinality(TableNames)
    /\ Cardinality(CallsOf("delete_objects")) * PageSize >= Cardinality(LandingKeys)
    /\ Cardinality(CallsOf("delete_role_policy")) = 2

\* the calls named op with argument arg that were made before place i of the
\* log and returned
ReturnedBefore(i, op, arg) ==
    {j \in 1..(i - 1) : ops[j] = Call(op, arg) /\ j # failedAt}

\* C21: within the identity step the role and its two inline policies are
\* handled in dependency order. In a setup run every put_role_policy call
\* comes after a create_role call that returned. In a teardown run the
\* delete_role call comes after the calls that delete the bucket-scoped policy
\* and the general policy have both returned, so it is made on a role without
\* policies; when a policy deletion fails, no delete_role call is issued.
C21_IdentityDependencyOrder ==
    /\ mode = "setup" =>
          \A i \in CallsOf("put_role_policy") :
              ReturnedBefore(i, "create_role", GLUE_ROLE_NAME) # {}
    /\ mode = "teardown" =>
          /\ \A i \in CallsOf("delete_role") :
                /\ ReturnedBefore(i, "delete_role_policy", S3_ROLE_POLICY_NAME) # {}
                /\ ReturnedBefore(i, "delete_role_policy", GLUE_ROLE_POLICY_NAME) # {}
                /\ policies = {}
          /\ (failedAt > 0 /\ ops[failedAt].op = "delete_role_policy") =>
                CallsOf("delete_role") = {}

C21_Witness ==
    /\ mode = "teardown" /\ result = "raised"
    /\ failedAt = Len(ops) /\ Len(ops) >= 2
    /\ ops[failedAt] = Call("delete_role_policy", GLUE_ROLE_POLICY_NAME)
    /\ ops[failedAt - 1] = Call("delete_role_policy", S3_ROLE_POLICY_NAME)
    /\ role /\ GLUE_ROLE_POLICY_NAME \in policies

\* C22: in a setup run with init_glue_database and init_glue_tables both
\* true, every create_table call comes after a create_database call that
\* returned and, after that, a wait whose get_database reported the database
\* as present; when the create fails or the wait ends with a timeout or
\* another error, no create_table call is issued.
C22_TablesAfterDatabaseIsPresent ==
    (mode = "setup" /\ flags.init_glue_database /\ flags.init_glue_tables) =>
        /\ \A i \in CallsOf("create_table") :
              \E k \in ReturnedBefore(i, "get_database", DB_NAME) :
                  /\ ReturnedBefore(k, "create_database", DB_NAME) # {}
                  /\ database
        /\ (failedAt > 0 /\ ops[failedAt].op \in {"create_database", "get_database"}) =>
              CallsOf("create_table") = {}

C22_Witness ==
    /\ mode = "setup" /\ flags.init_glue_database /\ flags.init_glue_tables
    /\ result = "raised" /\ error = "TimeoutError: " \o DB_NAME
    /\ ops[failedAt].op = "get_database"
    /\ database /\ tables = {}

\* C23: for any bucket_name, create_and_wait_for_bucket issues the create call
\* and then the bucket-exists wait for that same bucket: the target of the
\* wait is the bucket_name it was called with.
C23_WaitTargetsTheArgument ==
    mode = "bucket" =>
        \A i \in CallsOf("wait_bucket_exists") :
            /\ i > 1 /\ ops[i - 1] = Call("create_bucket", flags.bucket_name)
            /\ ops[i].arg = flags.bucket_name

\* the folders of a data directory that are directories and have
\* (has = TRUE) or lack (has = FALSE) a landing subdirectory
EntityFolders(base, has) ==
    {f \in DOMAIN base : base[f].is_dir /\ base[f].has_landing = has}

\* <<entity, file name>> for every regular file in a landing subdirectory
LandingFiles(base) ==
    {p \in FolderNames \X FileNames :
        /\ p[1] \in EntityFolders(base, TRUE)
        /\ p[2] \in DOMAIN base[p[1]].entries
        /\ base[p[1]].entries[p[2]].is_file}

\* C24: for every data directory, load_data_to_bucket uploads only regular
\* files of landing subdirectories, each to the key entity/landing/filename;
\* it raises only when an upload fails, never for an entity without a landing
\* subdirectory, which it skips; when it returns, every such file of every
\* entity has been uploaded once and is in the bucket, and nothing else is.
C24_UploadsLandingFilesOnly ==
    LET keys == {p[1] \o "/landing/" \o p[2] : p \in LandingFiles(data.base)}
        sent == {data.uploaded[i] : i \in 1..Len(data.uploaded)}
    IN  /\ sent \subseteq keys
        /\ objects = sent
        /\ Cardinality(sent) = Len(data.uploaded)
        /\ data.status = "raised" => data.error = "ClientError"
        /\ data.status = "returned" =>
              /\ sent = keys
              /\ Len(data.skipped) = Cardinality(EntityFolders(data.base, FALSE))

C24_Witness ==
    /\ data.status = "returned"
    /\ DOMAIN data.base = FolderNames
    /\ ~data.base["notes"].is_dir
    /\ data.skipped = <<"customer">>
    /\ data.base["step_trainer"].entries = [n \in FileNames |-> [is_file |-> n = "a.json"]]
    /\ data.uploaded = <<"step_trainer/landing/a.json">>
    /\ objects = {"step_trainer/landing/a.json"}

\* how many of the responses seen are resp
CountOf(seen, resp) == Cardinality({i \in 1..Len(seen) : seen[i] = resp})

\* C25: wait_for_glue_database never makes more than max_attempts
\* get_database calls and none after a success or another error; it has slept
\* once, for the fixed delay, for each not-found response and for nothing
\* else, the last attempt before the timeout included; with max_attempts = 0
\* it makes no call and ends with the timeout error.
C25_CallsAndSleepsBounded ==
    LET not_found == CountOf(wait.seen, "not_found") IN
    /\ wait.calls = Len(wait.seen) /\ wait.calls <= wait.max_attempts
    /\ \A i \in 1..Len(wait.seen) : wait.seen[i] # "not_found" => i = Len(wait.seen)
    /\ wait.sleeps = (IF wait.status = "sleeping" THEN not_found - 1 ELSE not_found)
    /\ wait.slept = wait.sleeps * wait.delay
    /\ (wait.status = "raised" /\ wait.error # "ClientError") =>
          /\ wait.error = "TimeoutError: " \o wait.database_name
          /\ wait.calls = wait.max_attempts
          /\ wait.sleeps = wait.max_attempts
    /\ wait.max_attempts = 0 => (wait.calls = 0 /\ wait.status \in {"polling", "raised"})

C25_Witness ==
    /\ wait.status = "raised" /\ wait.error = "TimeoutError: " \o wait.database_name
    /\ wait.max_attempts = 3 /\ wait.delay = 2
    /\ wait.calls = 3 /\ wait.sleeps = 3 /\ wait.slept = 6

\* one step of a setup run, as far as writing the handoff file goes
HandoffWriteStep ==
    /\ (mode = "setup" /\ (~flags.init_vpc_endpoint \/ pc # "s_vpc" \/ result' = "raised")) =>
          handoff' = handoff
    /\ pc \in {"start", "exit"} => handoff' = handoff
    /\ handoff' # handoff =>
          /\ NewCalls # <<>> /\ NewCalls[1].op = "create_vpc_endpoint"
          /\ result' # "raised"
          /\ issued' = issued + 1 /\ EndpointIds[issued'] \in endpoints'
          /\ handoff' = [exists |-> TRUE,
                         bytes |-> pickle_dump(EndpointResponse(EndpointIds[issued'], VPC_ID,
                                      ROUTE_TABLE_ID, "com.amazonaws." \o REGION \o ".s3"))]

\* C26: in a setup run the handoff file is written only by the step in which
\* create_vpc_endpoint returns. No step of a run with init_vpc_endpoint false,
\* no step before the endpoint block, and no step in which a call fails, the
\* endpoint creation included, changes the file: what a previous run left is
\* neither removed nor replaced.
C26_HandoffWrittenOnlyAfterCreate == [][HandoffWriteStep]_vars

C26_Witness ==
    /\ mode = "setup" /\ flags.init_vpc_endpoint
    /\ result = "raised" /\ ops[failedAt].op = "create_vpc_endpoint"
    /\ issued = 1 /\ handoff.exists /\ HandoffEndpoint = EndpointIds[1]
    /\ HandoffEndpoint \notin endpoints

\* the calls that create or write, the calls that delete, and the reads each
\* mode makes on the way
CreationOps == {"create_bucket", "create_role", "put_role_policy", "create_vpc_endpoint",
                "upload_file", "create_database", "create_table"}

DeletionOps == {"delete_vpc_endpoints", "delete_role_policy", "delete_role", "delete_table",
                "delete_database", "delete_objects", "delete_bucket"}

\* nothing the provider holds is removed by the step
NothingRemoved ==
    /\ buckets \subseteq buckets' /\ objects \subseteq objects'
    /\ (role => role') /\ policies \subseteq policies'
    /\ endpoints \subseteq endpoints'
    /\ (database => database') /\ tables \subseteq tables'

\* nothing is added to what the provider holds by the step
NothingAdded ==
    /\ buckets' \subseteq buckets /\ objects' \subseteq objects
    /\ (role' => role) /\ policies' \subseteq policies
    /\ endpoints' \subseteq endpoints /\ issued' = issued
    /\ (database' => database) /\ tables' \subseteq tables

OneModeStep ==
    /\ mode' = "setup" =>
          \A i \in 1..Len(ops') : ops'[i].op \notin DeletionOps \cup {"pickle_load"}
    /\ mode = "setup" => NothingRemoved
    /\ mode' = "teardown" =>
          \A i \in 1..Len(ops') : ops'[i].op \notin CreationOps \cup {"pickle_dump"}
    /\ mode = "teardown" => (NothingAdded /\ handoff' = handoff)
    /\ mode' = "none" => ops' = <<>>
    /\ mode = "none" => (provider' = provider /\ handoff' = handoff)

\* C27: a run issues operations of one mode only. The log of a setup run holds
\* no deletion call and no step of it removes anything from the provider; the
\* log of a teardown run holds no creation call and no write of the handoff
\* file, and no step of it adds anything or changes the file; a run with
\* neither --setup nor --teardown issues no call and changes nothing.
C27_OneModePerRun == [][OneModeStep]_vars

C27_Witness ==
    /\ mode = "none" /\ pc = "exit" /\ result = "ok" /\ ops = <<>>
    /\ warnings = <<"No action specified">>
    /\ AllProvisioned

====
